---- MODULE Spec2Model ----
(***************************************************************************)
(* A model of src/Transformers/model.py.                                   *)
(*                                                                         *)
(* A tensor is modelled by its shape and, for every position (every index  *)
(* over all axes but the last), the set of caller-supplied input positions *)
(* its values are computed from.  Shapes follow the tensor library's rules *)
(* (broadcasting, view, transpose, matmul, linear); a rule that fails      *)
(* gives the error the library raises.  Floating-point values are not      *)
(* modelled: the standard deviation of LayerNorm is modelled exactly, as   *)
(* a rational under the square root, on integer vectors.                   *)
(***************************************************************************)
EXTENDS Integers, Sequences, FiniteSets, TLC

VARIABLES call, res, pc

vars == <<call, res, pc>>

\* ------------------------------------------------------------------ bounds
MaxBatch == 2
MaxSeq == 2
MaxHeads == 2
MaxDModel == 4
MaxLayers == 1
MaxBuildDModel == 8
MaxVal == 2

\* ----------------------------------------------------------- shape helpers
Front(s) == SubSeq(s, 1, Len(s) - 1)

Last(s) == s[Len(s)]

Max2(a, b) == IF a >= b THEN a ELSE b

Min2(a, b) == IF a <= b THEN a ELSE b

RECURSIVE Prod(_)
Prod(s) == IF s = <<>> THEN 1 ELSE Last(s) * Prod(Front(s))

\* every index tuple of a tensor of shape s (indices start at 1)
RECURSIVE Idx(_)
Idx(s) ==
  IF s = <<>> THEN {<<>>}
  ELSE {Append(p, i) : p \in Idx(Front(s)), i \in 1..Last(s)}

\* shape s padded on the left with ones to rank n
Pad(s, n) == [k \in 1..n |-> IF k <= n - Len(s) THEN 1 ELSE s[k - (n - Len(s))]]

\* broadcasting of two shapes: aligned from the right, sizes equal or one of them 1
CanBroadcast(s1, s2) ==
  LET n == Max2(Len(s1), Len(s2))
  IN \A k \in 1..n :
       \/ Pad(s1, n)[k] = Pad(s2, n)[k]
       \/ Pad(s1, n)[k] = 1
       \/ Pad(s2, n)[k] = 1

BroadcastShape(s1, s2) ==
  LET n == Max2(Len(s1), Len(s2))
  IN [k \in 1..n |-> IF Pad(s1, n)[k] = 1 THEN Pad(s2, n)[k] ELSE Pad(s1, n)[k]]

\* an in-place operation broadcasts its argument (shape m) to the target (shape s)
CanExpandTo(m, s) ==
  /\ Len(m) <= Len(s)
  /\ \A k \in 1..Len(s) : Pad(m, Len(s))[k] = s[k] \/ Pad(m, Len(s))[k] = 1

\* the index of an operand of shape s read at index i of the broadcast result
Proj(i, s) ==
  [k \in 1..Len(s) |-> IF s[k] = 1 THEN 1 ELSE i[k + Len(i) - Len(s)]]

\* ----------------------------------------------------------------- tensors
Ok(t) == t.err = ""

Err(kind) == [err |-> kind, shape |-> <<>>, dep |-> <<>>]

Tensor(shape, dep) == [err |-> "", shape |-> shape, dep |-> dep]

\* a caller-supplied tensor: every position is its own input
Input(origin, shape) ==
  Tensor(shape, [i \in Idx(Front(shape)) |-> {<<origin, i>>}])

\* a learned parameter or a constant table
Const(shape) == Tensor(shape, [i \in Idx(Front(shape)) |-> {}])

\* x + y, x - y, x * y, x / y with broadcasting
Elementwise(a, b) ==
  IF ~Ok(a) THEN a
  ELSE IF ~Ok(b) THEN b
  ELSE IF ~CanBroadcast(a.shape, b.shape) THEN Err("RuntimeError")
  ELSE LET s == BroadcastShape(a.shape, b.shape)
       IN Tensor(s, [i \in Idx(Front(s)) |->
                       a.dep[Proj(i, Front(a.shape))] \cup b.dep[Proj(i, Front(b.shape))]])

\* x.mean(dim=-1, keepdim=True), x.std(dim=-1, keepdim=True)
ReduceLast(x) ==
  IF ~Ok(x) THEN x ELSE Tensor(Append(Front(x.shape), 1), x.dep)

\* nn.Linear(in_features, out_features) applied to x
Linear(x, in_features, out_features) ==
  IF ~Ok(x) THEN x
  ELSE IF Last(x.shape) # in_features THEN Err("RuntimeError")
  ELSE Tensor(Append(Front(x.shape), out_features), x.dep)

\* t.view(t.shape[0], t.shape[1], h, d_k)
View(t, h, d_k) ==
  IF ~Ok(t) THEN t
  ELSE IF Len(t.shape) < 2 THEN Err("IndexError")
  ELSE LET s == <<t.shape[1], t.shape[2], h, d_k>>
       IN IF Prod(s) # Prod(t.shape) THEN Err("RuntimeError")
          ELSE Tensor(s, [i \in Idx(Front(s)) |->
                 UNION {t.dep[j] : j \in {j \in Idx(Front(t.shape)) :
                                           j[1] = i[1] /\ (Len(j) >= 2 => j[2] = i[2])}}])

\* t.transpose(1, 2) of a tensor of rank 4
Transpose12(t) ==
  IF ~Ok(t) THEN t
  ELSE Tensor(<<t.shape[1], t.shape[3], t.shape[2], t.shape[4]>>,
              [i \in Idx(<<t.shape[1], t.shape[3], t.shape[2]>>) |->
                 t.dep[<<i[1], i[3], i[2]>>]])

\* nn.Dropout with dropout disabled, and dropout=None
Dropout(x) == x

\* torch.relu
Relu(x) == x

\* ------------------------------------------------------------------- masks
NoMask == [none |-> TRUE, shape |-> <<>>, bit |-> <<>>]

Mask(shape, bit) == [none |-> FALSE, shape |-> shape, bit |-> bit]

Ones(shape) == Mask(shape, [i \in Idx(shape) |-> 1])

Zeros(shape) == Mask(shape, [i \in Idx(shape) |-> 0])

\* lower-triangular mask: entry (.., i, j) is 0 for every j > i
Causal(shape) ==
  Mask(shape, [i \in Idx(shape) |-> IF i[Len(i)] > i[Len(i) - 1] THEN 0 ELSE 1])

\* padding mask: the last key position is hidden
Padding(shape) ==
  Mask(shape, [i \in Idx(shape) |-> IF i[Len(i)] = Last(shape) THEN 0 ELSE 1])

\* --------------------------------------------------------------- LayerNorm
\* LayerNorm.forward on a tensor: alpha * (x - mean) / (std + eps) + gamma
LayerNorm_forward(x) ==
  LET mean == ReduceLast(x)
      std == ReduceLast(x)
      alpha == Const(<<1>>)
      gamma == Const(<<1>>)
      eps == Const(<<>>)
  IN Elementwise(Elementwise(Elementwise(alpha, Elementwise(x, mean)),
                             Elementwise(std, eps)),
                 gamma)

\* --------------------------------------------------------- FeedForwardBlock
FeedForwardBlock_init(d_model, d_ff) == [d_model |-> d_model, d_ff |-> d_ff]

FeedForwardBlock_forward(self, x) ==
  Linear(Dropout(Relu(Linear(x, self.d_model, self.d_ff))), self.d_ff, self.d_model)

\* ------------------------------------------------------ MultiAttentionBlock
MultiAttentionBlock_init(d_model, h) ==
  IF d_model % h # 0
  THEN [err |-> "AssertionError", d_model |-> d_model, h |-> h, d_k |-> 0]
  ELSE [err |-> "", d_model |-> d_model, h |-> h, d_k |-> d_model \div h]

\* mutant: the masking step left out
masked_fill_skipped(mask, ss) == {}

\* mutant: the mask read the wrong way round (mask == 1)
masked_fill_inverted(mask, ss) == {i \in Idx(ss) : mask.bit[Proj(i, mask.shape)] = 1}

\* the score entries masked_fill_(mask == 0, -1e9) overwrites
masked_fill_(mask, ss) == {i \in Idx(ss) : mask.bit[Proj(i, mask.shape)] = 0}

\* the entries of one row of the scores (the last axis)
Row(i, ss) == {Append(Front(i), j) : j \in 1..Last(ss)}

\* the entries whose softmax weight is exactly zero: an entry holding -1e9 in a row
\* that has an entry not overwritten (exp underflows); a row wholly overwritten
\* is uniform
SoftmaxZero(filled, ss) ==
  {i \in filled : \E j \in Row(i, ss) : j \notin filled}

\* (query @ key.transpose(-2, -1)) / math.sqrt(d_k): the batch axes broadcast,
\* entry (.., i, j) is computed from query position i and key position j
Scores(query, key) ==
  LET qs == query.shape
      ks == key.shape
      ss == BroadcastShape(Front(Front(qs)), Front(Front(ks)))
              \o <<qs[Len(qs) - 1], ks[Len(ks) - 1]>>
  IN IF ~(Last(qs) = Last(ks) /\ CanBroadcast(Front(Front(qs)), Front(Front(ks))))
     THEN Err("RuntimeError")
     ELSE Tensor(ss, [i \in Idx(ss) |->
                   query.dep[Proj(Front(i), Front(qs))]
                     \cup key.dep[Proj(Append(Front(Front(i)), Last(i)), Front(ks))]])

\* attention_score.softmax(-1), given the entries that hold -1e9
Softmax(scores, filled) ==
  Tensor(scores.shape,
         [i \in Idx(scores.shape) |->
            IF i \in SoftmaxZero(filled, scores.shape) \/ Row(i, scores.shape) \subseteq filled
            THEN {}
            ELSE UNION {scores.dep[j] : j \in Row(i, scores.shape) \ filled}])

\* attention_score @ value: a weight that is exactly zero brings nothing in
WeightedSum(weights, zero, value) ==
  LET ws == weights.shape
      vs == value.shape
      os == BroadcastShape(Front(Front(ws)), Front(Front(vs)))
              \o <<ws[Len(ws) - 1], Last(vs)>>
  IN IF ~(Last(ws) = vs[Len(vs) - 1] /\ CanBroadcast(Front(Front(ws)), Front(Front(vs))))
     THEN Err("RuntimeError")
     ELSE Tensor(os, [i \in Idx(Front(os)) |->
            UNION {weights.dep[Proj(Append(i, j), ws)]
                     \cup value.dep[Proj(Append(Front(i), j), Front(vs))] :
                   j \in {j \in 1..Last(ws) : Proj(Append(i, j), ws) \notin zero}}])

\* the rest of attention once the scores are computed
AttentionOn(scores, value, mask, dropout) ==
  LET filled == IF mask.none THEN {} ELSE masked_fill_(mask, scores.shape)
      weights == Dropout(Softmax(scores, filled))
      x == WeightedSum(weights, SoftmaxZero(filled, scores.shape), value)
  IN IF ~Ok(scores) \/ ~(mask.none \/ CanExpandTo(mask.shape, scores.shape)) \/ ~Ok(x)
     THEN [x |-> Err("RuntimeError"), attention_score |-> Err("RuntimeError"), filled |-> {}]
     ELSE [x |-> x, attention_score |-> weights, filled |-> filled]

\* MultiAttentionBlock.attention
attention(query, key, value, mask, dropout) ==
  IF ~Ok(query) \/ ~Ok(key) \/ ~Ok(value)
  THEN [x |-> Err("RuntimeError"), attention_score |-> Err("RuntimeError"), filled |-> {}]
  ELSE AttentionOn(Scores(query, key), value, mask, dropout)

\* MultiAttentionBlock.forward
MultiAttentionBlock_forward(self, q, k, v, mask) ==
  LET query == Transpose12(View(Linear(q, self.d_model, self.d_model), self.h, self.d_k))
      key == Transpose12(View(Linear(k, self.d_model, self.d_model), self.h, self.d_k))
      value == Transpose12(View(Linear(v, self.d_model, self.d_model), self.h, self.d_k))
      x == attention(query, key, value, mask, "dropout").x
  IN Linear(x, self.d_model, self.d_model)

\* ------------------------------------------------------- ResidualConnection
\* the callables DecoderBlock.forward passes as sublayer, with what they capture
SelfAttention(block, mask) ==
  [kind |-> "self", block |-> block, encoder_output |-> Err("not captured"), mask |-> mask]

CrossAttention(block, encoder_output, mask) ==
  [kind |-> "cross", block |-> block, encoder_output |-> encoder_output, mask |-> mask]

FeedForward(block) ==
  [kind |-> "feed_forward", block |-> block, encoder_output |-> Err("not captured"), mask |-> NoMask]

\* sublayer(y)
Apply(sublayer, y) ==
  IF sublayer.kind = "feed_forward" THEN FeedForwardBlock_forward(sublayer.block, y)
  ELSE MultiAttentionBlock_forward(
         sublayer.block,
         IF sublayer.kind = "self" THEN y ELSE sublayer.encoder_output,
         IF sublayer.kind = "self" THEN y ELSE sublayer.encoder_output,
         y,
         sublayer.mask)

\* ResidualConnection.forward: x + dropout(sublayer(norm(x)))
ResidualConnection_forward(x, sublayer) ==
  Elementwise(x, Dropout(Apply(sublayer, LayerNorm_forward(x))))

\* ------------------------------------------------------------- DecoderBlock
DecoderBlock_init(self_attention, cross_attention, feed_forward) ==
  [self_attention |-> self_attention,
   cross_attention |-> cross_attention,
   feed_forward |-> feed_forward]

\* one invocation of a MultiAttentionBlock by a sublayer of a block; stream is the
\* tensor the residual wrapper was given
Invocation(kind, stream, q, k, v, mask) ==
  [kind |-> kind, stream |-> stream, q |-> q, k |-> k, v |-> v, mask |-> mask]

\* the first sublayer of DecoderBlock.forward: self-attention
SelfAttentionSublayer(self, x, tgt_mask) ==
  [out |-> ResidualConnection_forward(x, SelfAttention(self.self_attention, tgt_mask)),
   calls |-> IF ~Ok(x) THEN <<>>
             ELSE <<Invocation("self", x, LayerNorm_forward(x), LayerNorm_forward(x),
                               LayerNorm_forward(x), tgt_mask)>>]

\* the second sublayer: cross-attention, on the state s the first one left
CrossAttentionSublayer(self, encoder_output, s, src_mask) ==
  [out |-> ResidualConnection_forward(s.out,
             CrossAttention(self.cross_attention, encoder_output, src_mask)),
   calls |-> IF ~Ok(s.out) THEN s.calls
             ELSE Append(s.calls,
                         Invocation("cross", s.out, encoder_output, encoder_output,
                                    LayerNorm_forward(s.out), src_mask))]

\* the third sublayer: feed-forward
FeedForwardSublayer(self, s) ==
  [out |-> ResidualConnection_forward(s.out, FeedForward(self.feed_forward)),
   calls |-> s.calls]

\* DecoderBlock.forward; calls lists the attention invocations made before the call
\* returned or raised
DecoderBlock_forward(self, encoder_output, x, tgt_mask, src_mask) ==
  FeedForwardSublayer(self,
    CrossAttentionSublayer(self, encoder_output,
      SelfAttentionSublayer(self, x, tgt_mask), src_mask))

\* ------------------------------------------------------------------ Decoder
Decoder_init(layers) == [layers |-> layers]

\* x = layer(x, encoder_output, src_mask, tgt_mask), on the state s of the loop
\* (x, and the attention invocations made so far); a layer that raised ends it
Merge(s, r) == [out |-> r.out, calls |-> s.calls \o r.calls]

DecoderLayer(layer, s, encoder_output, src_mask, tgt_mask) ==
  IF ~Ok(s.out) THEN s
  ELSE Merge(s, DecoderBlock_forward(layer, s.out, encoder_output, src_mask, tgt_mask))

Normed(s) == [out |-> LayerNorm_forward(s.out), calls |-> s.calls]

\* Decoder.forward
Decoder_forward(self, x, encoder_output, src_mask, tgt_mask) ==
  LET after[n \in 0..Len(self.layers)] ==
        IF n = 0 THEN [out |-> x, calls |-> <<>>]
        ELSE DecoderLayer(self.layers[n], after[n - 1], encoder_output, src_mask, tgt_mask)
  IN Normed(after[Len(self.layers)])

\* ------------------------------------------------------- PositionalEncoding
\* the fields lines 18-33 of PositionalEncoding.__init__ set
PositionalEncoding_fields(d_model, seq_length) ==
  [d_model |-> d_model, seq_length |-> seq_length, pe |-> Const(<<1, seq_length, d_model>>)]

\* self.pe[:, :n, :]: a slice end past the axis is clamped to it
SliceAxis2(t, n) ==
  Tensor(<<t.shape[1], Min2(n, t.shape[2]), t.shape[3]>>,
         [i \in Idx(<<t.shape[1], Min2(n, t.shape[2])>>) |-> t.dep[i]])

\* PositionalEncoding.forward
PositionalEncoding_forward(self, x) ==
  Dropout(Elementwise(x, SliceAxis2(self.pe, x.shape[2])))

\* ------------------------------------------------- nn.Module attributes
\* a module object: its plain attributes (and submodules) and its registered buffers
Module_init == [err |-> "", attrs |-> {}, buffers |-> {}]

\* self.name = value, for a value that is not a registered buffer's name
SetAttr(obj, name) == [obj EXCEPT !.attrs = @ \cup {name}]

\* nn.Module.register_buffer: a name the object already has as an attribute that
\* is not a buffer is refused
register_buffer(obj, name) ==
  IF name \in obj.attrs /\ name \notin obj.buffers
  THEN [obj EXCEPT !.err = "KeyError"]
  ELSE [obj EXCEPT !.buffers = @ \cup {name}]

\* PositionalEncoding.__init__
PositionalEncoding_init(d_model, seq_length) ==
  LET o1 == SetAttr(SetAttr(SetAttr(Module_init, "d_model"), "seq_length"), "dropout")
      \* self.pe = torch.zeros(seq_length, d_model)
      o2 == SetAttr(o1, "pe")
      \* div_term has one entry per even feature index
      n_div == (d_model + 1) \div 2
      \* self.pe[:, ::2] = sin(..), self.pe[:, 1::2] = cos(..)
      okSin == CanExpandTo(<<seq_length, n_div>>, <<seq_length, (d_model + 1) \div 2>>)
      okCos == CanExpandTo(<<seq_length, n_div>>, <<seq_length, d_model \div 2>>)
  IN IF ~(okSin /\ okCos) THEN [o2 EXCEPT !.err = "RuntimeError"]
     ELSE register_buffer(o2, "pe")

\* a build that raised: the error, and the constructors that had allocated or
\* computed tensors by then
Raised(err, ran) == [err |-> err, ran |-> ran, model |-> <<>>]

\* build_transformer
build_transformer(cfg) ==
  LET src_pos == PositionalEncoding_init(cfg.d_model, cfg.src_seq_len)
      tgt_pos == PositionalEncoding_init(cfg.d_model, cfg.tgt_seq_len)
      attention_block == MultiAttentionBlock_init(cfg.d_model, cfg.h)
      feed_forward_block == FeedForwardBlock_init(cfg.d_model, cfg.d_ff)
      decoder_block == DecoderBlock_init(attention_block, attention_block, feed_forward_block)
      embeds == <<"InputEmbedding", "InputEmbedding">>
  IN IF src_pos.err # "" THEN Raised(src_pos.err, embeds \o <<"PositionalEncoding">>)
     ELSE IF tgt_pos.err # ""
       THEN Raised(tgt_pos.err, embeds \o <<"PositionalEncoding", "PositionalEncoding">>)
     ELSE IF cfg.N > 0 /\ attention_block.err # ""
       THEN Raised(attention_block.err, embeds \o <<"PositionalEncoding", "PositionalEncoding">>)
     ELSE [err |-> "",
           ran |-> embeds \o <<"PositionalEncoding", "PositionalEncoding">>,
           model |-> [decoder |-> Decoder_init([n \in 1..cfg.N |-> decoder_block]),
                      src_pos |-> src_pos, tgt_pos |-> tgt_pos]]

\* ------------------------------------------------- LayerNorm on numbers
RECURSIVE SumSeq(_)
SumSeq(xs) == IF xs = <<>> THEN 0 ELSE Last(xs) + SumSeq(Front(xs))

\* n * (x[i] - mean), which is an integer
Centered(xs) == [i \in DOMAIN xs |-> Len(xs) * xs[i] - SumSeq(xs)]

Squares(xs) == [i \in DOMAIN xs |-> xs[i] * xs[i]]

\* the correction of Tensor.std when none is given (unbiased)
StdCorrection == 1

\* mutant: the population deviation (correction 0)
std_population(xs) ==
  [num |-> SumSeq(Squares(Centered(xs))),
   den |-> Len(xs) * Len(xs) * Len(xs)]

\* x.std(dim=-1): the square root of num / den; den = 0 is NaN
std(xs) ==
  [num |-> SumSeq(Squares(Centered(xs))),
   den |-> Len(xs) * Len(xs) * (Len(xs) - StdCorrection)]

\* LayerNorm.forward on one feature vector of integers: the output is
\* alpha * (centered[i] / n) / (sqrt(std.num / std.den) + eps) + gamma
LayerNorm_forward_values(xs) ==
  [mean |-> [num |-> SumSeq(xs), den |-> Len(xs)],
   centered |-> Centered(xs),
   std |-> std(xs)]

\* ------------------------------------------------------------ the calls
\* the (d_model, h) of the attention blocks that can be constructed
Configs ==
  {c \in (2..MaxDModel) \X (1..MaxHeads) : c[1] % c[2] = 0}

\* the masks a caller passes for scores of shape (B, h, Sq, Sk)
Masks(B, Sq, Sk) ==
  {NoMask, Ones(<<1, Sq, Sk>>), Ones(<<B, 1, 1, Sk>>), Causal(<<1, Sq, Sk>>),
   Padding(<<B, 1, 1, Sk>>), Zeros(<<1, Sq, Sk>>), Ones(<<1, Sq + 1, Sk>>)}

TgtMasks(S) == {NoMask, Ones(<<1, S, S>>), Causal(<<1, S, S>>)}

SrcMasks(B, S) == {NoMask, Ones(<<B, 1, 1, S>>), Padding(<<B, 1, 1, S>>)}

BuildCalls ==
  {[op |-> "build_transformer",
    cfg |-> [src_vocab_size |-> 6, tgt_vocab_size |-> 6,
             src_seq_len |-> a, tgt_seq_len |-> b,
             d_model |-> d, N |-> n, h |-> h, d_ff |-> 2 * d]] :
     a \in 1..(MaxSeq + 1), b \in 1..MaxSeq, d \in 2..MaxBuildDModel,
     n \in 0..MaxLayers, h \in 1..(MaxHeads + 1)}

InitCalls ==
  {[op |-> "MultiAttentionBlock", d_model |-> d, h |-> h] :
     d \in 2..MaxDModel, h \in 1..(MaxHeads + 1)}

AttentionCalls ==
  UNION {{[op |-> "attention",
           query |-> Input("q", <<B, c[2], Sq, c[1] \div c[2]>>),
           key |-> Input("k", <<B, c[2], Sk, c[1] \div c[2]>>),
           value |-> Input("v", <<B, c[2], Sk, c[1] \div c[2]>>),
           mask |-> m] : m \in Masks(B, Sq, Sk)} :
         B \in 1..MaxBatch, c \in Configs, Sq \in 1..MaxSeq, Sk \in 1..MaxSeq}

ForwardCalls ==
  UNION {{[op |-> "MultiAttentionBlock.forward",
           self |-> MultiAttentionBlock_init(c[1], c[2]),
           q |-> Input("q", <<B, Sq, c[1]>>),
           k |-> Input("k", <<B, Sk, c[1]>>),
           v |-> Input("v", <<B, Sk, c[1]>>),
           mask |-> m] : m \in Masks(B, Sq, Sk)} :
         B \in 1..MaxBatch, c \in Configs, Sq \in 1..MaxSeq, Sk \in 1..MaxSeq}

Block(c) ==
  DecoderBlock_init(MultiAttentionBlock_init(c[1], c[2]),
                    MultiAttentionBlock_init(c[1], c[2]),
                    FeedForwardBlock_init(c[1], 2 * c[1]))

DecoderBlockCalls ==
  UNION {{[op |-> "DecoderBlock.forward",
           self |-> Block(c),
           encoder_output |-> Input("mem", <<B, Ss, c[1]>>),
           x |-> Input("tgt", <<B, St, c[1]>>),
           tgt_mask |-> tm,
           src_mask |-> sm] : tm \in TgtMasks(St), sm \in SrcMasks(B, Ss)} :
         B \in 1..MaxBatch, c \in Configs, Ss \in 1..MaxSeq, St \in 1..MaxSeq}

DecoderCalls ==
  UNION {{[op |-> "Decoder.forward",
           self |-> Decoder_init([n \in 1..N |-> Block(c)]),
           x |-> Input("tgt", <<B, St, c[1]>>),
           encoder_output |-> Input("mem", <<B, Ss, c[1]>>),
           src_mask |-> sm,
           tgt_mask |-> tm] : tm \in TgtMasks(St), sm \in SrcMasks(B, Ss)} :
         B \in 1..MaxBatch, c \in Configs, Ss \in 1..MaxSeq, St \in 1..MaxSeq,
         N \in 0..MaxLayers}

PositionalCalls ==
  {[op |-> "PositionalEncoding.forward",
    self |-> PositionalEncoding_fields(d, M),
    x |-> Input("x", <<B, S, d>>)] :
     d \in 2..MaxDModel, M \in 1..MaxSeq, B \in 1..MaxBatch, S \in 1..(MaxSeq + 1)}

Vectors == UNION {[1..n -> 0..MaxVal] : n \in 1..MaxDModel}

LayerNormCalls == {[op |-> "LayerNorm.forward", x |-> xs] : xs \in Vectors}

Calls ==
  BuildCalls \cup InitCalls \cup AttentionCalls \cup ForwardCalls
    \cup DecoderBlockCalls \cup DecoderCalls \cup PositionalCalls \cup LayerNormCalls

NoResult == <<>>

\* ---------------------------------------------------------- in-place writes
\* mutant: the in-place masking applied to the caller's query
FilledObjectQuery == "query"

\* the tensor object line 81's masked_fill_ writes into: the one line 79 binds
\* attention_score to, which the division allocates
FilledObject == "attention_score"

\* a tensor whose entries were overwritten in place
Overwritten(t, entries) == [t EXCEPT !.err = "overwritten", !.dep = entries]

\* the caller's tensors after attention returned
AfterAttention(c, filled) ==
  [name \in DOMAIN c |->
     IF name = FilledObject /\ filled # {} THEN Overwritten(c[name], filled) ELSE c[name]]

\* ---------------------------------------------------------------- actions
Init ==
  /\ call \in Calls
  /\ res = NoResult
  /\ pc = "call"

Build ==
  /\ pc = "call" /\ call.op = "build_transformer"
  /\ res' = build_transformer(call.cfg)
  /\ call' = call
  /\ pc' = "ret"

Construct ==
  /\ pc = "call" /\ call.op = "MultiAttentionBlock"
  /\ res' = MultiAttentionBlock_init(call.d_model, call.h)
  /\ call' = call
  /\ pc' = "ret"

Attention ==
  /\ pc = "call" /\ call.op = "attention"
  /\ res' = attention(call.query, call.key, call.value, call.mask, "None")
  /\ call' = AfterAttention(call, res'.filled)
  /\ pc' = "ret"

Forward ==
  /\ pc = "call" /\ call.op = "MultiAttentionBlock.forward"
  /\ res' = MultiAttentionBlock_forward(call.self, call.q, call.k, call.v, call.mask)
  /\ call' = call
  /\ pc' = "ret"

DecoderBlockForward ==
  /\ pc = "call" /\ call.op = "DecoderBlock.forward"
  /\ res' = DecoderBlock_forward(call.self, call.encoder_output, call.x,
                                 call.tgt_mask, call.src_mask)
  /\ call' = call
  /\ pc' = "ret"

DecoderForward ==
  /\ pc = "call" /\ call.op = "Decoder.forward"
  /\ res' = Decoder_forward(call.self, call.x, call.encoder_output,
                            call.src_mask, call.tgt_mask)
  /\ call' = call
  /\ pc' = "ret"

PositionalForward ==
  /\ pc = "call" /\ call.op = "PositionalEncoding.forward"
  /\ res' = PositionalEncoding_forward(call.self, call.x)
  /\ call' = call
  /\ pc' = "ret"

LayerNormForward ==
  /\ pc = "call" /\ call.op = "LayerNorm.forward"
  /\ res' = LayerNorm_forward_values(call.x)
  /\ call' = call
  /\ pc' = "ret"

\* the caller makes the same call again on the tensors it holds
Again ==
  /\ pc = "ret"
  /\ pc' = "call"
  /\ res' = NoResult
  /\ call' = call

Next ==
  \/ Build
  \/ Construct
  \/ Attention
  \/ Forward
  \/ DecoderBlockForward
  \/ DecoderForward
  \/ PositionalForward
  \/ LayerNormForward
  \/ Again

Spec == Init /\ [][Next]_vars

\* ------------------------------------------------------------- the claims
Returned(op) == pc = "ret" /\ call.op = op

AllOnes(mask) == ~mask.none /\ \A i \in DOMAIN mask.bit : mask.bit[i] = 1

\* mask[.., i, j] = 0 for every j > i
IsCausal(mask) ==
  /\ ~mask.none
  /\ Len(mask.shape) >= 2
  /\ \A i \in DOMAIN mask.bit : i[Len(i)] > i[Len(i) - 1] => mask.bit[i] = 0

\* the mask can be broadcast to scores of shape (B, 1, Sq, Sk)
UsableMask(mask, B, Sq, Sk) == mask.none \/ CanExpandTo(mask.shape, <<B, 1, Sq, Sk>>)

\* the sum over every pair i < j of (x[i] - x[j])^2, which is n times the sum of
\* the squared deviations from the mean
PairwiseSquares(xs) ==
  SumSeq([k \in 1..(Len(xs) * Len(xs)) |->
            LET i == ((k - 1) \div Len(xs)) + 1
                j == ((k - 1) % Len(xs)) + 1
            IN IF i < j THEN (xs[i] - xs[j]) * (xs[i] - xs[j]) ELSE 0])

\* C1: a build whose d_model is not divisible by h is rejected with the
\* configuration error (the assertion of MultiAttentionBlock) before any
\* constructor has allocated or computed a tensor.
C1_RejectedBeforeTensorOps ==
  (Returned("build_transformer") /\ call.cfg.d_model % call.cfg.h # 0)
    => (res.err = "AssertionError" /\ res.ran = <<>>)

\* C2: MultiAttentionBlock.forward on a query of shape (B, S, d_model), with a
\* usable mask, returns a tensor of exactly the query's shape.
C2_ForwardKeepsQueryShape ==
  (Returned("MultiAttentionBlock.forward")
     /\ UsableMask(call.mask, call.q.shape[1], call.q.shape[2], call.k.shape[2]))
    => (Ok(res) /\ res.shape = call.q.shape)

\* C3: every cross-attention invocation of DecoderBlock.forward has the
\* normalized current representation as query, the encoder output as key and
\* as value, and the source mask as mask.
C3_CrossAttentionRoles ==
  Returned("DecoderBlock.forward")
    => \A n \in DOMAIN res.calls :
         res.calls[n].kind = "cross"
           => /\ res.calls[n].q = LayerNorm_forward(res.calls[n].stream)
              /\ res.calls[n].k = call.encoder_output
              /\ res.calls[n].v = call.encoder_output
              /\ res.calls[n].mask = call.src_mask

C5_EndToEndBuilds ==
  (Returned("build_transformer")
     /\ call.cfg.d_model = 8 /\ call.cfg.h = 2 /\ call.cfg.d_ff = 16 /\ call.cfg.N = 1)
    => res.err = ""

C7_AllOnesMaskIsNoMask ==
  Returned("attention")
    => /\ (AllOnes(call.mask)
             /\ CanExpandTo(call.mask.shape, Scores(call.query, call.key).shape))
            => res = attention(call.query, call.key, call.value, NoMask, "None")
       /\ \A i \in res.filled : call.mask.bit[Proj(i, call.mask.shape)] = 0

\* C7's case: attention returned for an all-ones mask over two or more keys.
C7_Witness ==
  /\ Returned("attention")
  /\ AllOnes(call.mask)
  /\ Ok(res.x)
  /\ call.key.shape[3] >= 2

C9_DecoderRoles ==
  Returned("Decoder.forward")
    => /\ res.calls # <<>> => res.calls[1].stream = call.x
       /\ \A n \in DOMAIN res.calls :
            /\ res.calls[n].kind = "self" => res.calls[n].mask = call.tgt_mask
            /\ res.calls[n].kind = "cross"
                 => /\ res.calls[n].k = call.encoder_output
                    /\ res.calls[n].mask = call.src_mask

\* C10 as stated: the deviation LayerNorm.forward uses is the population one, the
\* square root of the sum of squared deviations divided by n.
C10_PopulationStd ==
  Returned("LayerNorm.forward")
    => res.std.num * Len(call.x) * Len(call.x)
         = PairwiseSquares(call.x) * res.std.den

\* C10 amended: the deviation LayerNorm.forward uses is the sample one, the
\* square root of the sum of squared deviations divided by n - 1; for n = 1 it
\* is 0/0.
C10_SampleStd ==
  Returned("LayerNorm.forward")
    => /\ res.std.num * Len(call.x) * (Len(call.x) - 1)
            = PairwiseSquares(call.x) * res.std.den
       /\ Len(call.x) = 1 => res.std.den = 0
       /\ Len(call.x) > 1 => res.std.den > 0

\* C10's case: a vector of two or more features that are not all equal.
C10_Witness ==
  /\ Returned("LayerNorm.forward")
  /\ Len(call.x) >= 2
  /\ res.std.num > 0

====
